---- MODULE Spec2Model ----
(***************************************************************************)
(* Model of restore.py: one run of the restore CLI (main -> restore_backup *)
(* -> restore_contentexport | restore_zip) against a destination portal.  *)
(* The portal SDK is an external collaborator: each SDK call is a step     *)
(* whose outcome (returns a value, returns nothing, raises) is chosen      *)
(* nondeterministically.                                                   *)
(***************************************************************************)
EXTENDS Integers, Sequences, FiniteSets, TLC

VARIABLES
    pc,           \* position of the run in the program
    args,         \* parse_args result: [backup, overwrite, keep_metadata]
    file_kind,    \* what backup_path is on disk: "absent" | "dir" | "file"
    items,        \* the portal: item id -> [title, type, res]
    pre,          \* the portal as it was before the run
    next_id,      \* next id the portal assigns
    calls,        \* SDK calls issued so far, in order
    invoked,      \* restore functions restore_backup has called, in order
    raised,       \* places where an exception has been raised so far
    ocm,          \* locals of restore_contentexport
    zip,          \* locals of restore_zip and its callees
    fs,           \* the extraction directory on disk
    result,       \* what restore_backup returned
    exit_code     \* process exit code, -1 while running

vars == <<pc, args, file_kind, items, pre, next_id, calls, invoked, raised,
          ocm, zip, fs, result, exit_code>>

-----------------------------------------------------------------------------
(* Bounds *)

MaxPre == 2      \* items in the portal before the run
MaxPkg == 2      \* manifest entries of a package
MaxRes == 2      \* files inside resources.zip
MaxFiles == 2    \* entries of an extracted archive the finders look at

-----------------------------------------------------------------------------
(* Values *)

NoneId == 0                 \* Python None where an item id is expected
NoneTitle == <<"None">>     \* Python None where a title is expected
TS == "ts"                  \* dt.datetime.now().strftime("%Y%m%d_%H%M%S")

\* f"{title}_{suffix}"
Suffixed(title, suffix) == Append(title, suffix)

IsPrefix(s, t) == Len(s) <= Len(t) /\ SubSeq(t, 1, Len(s)) = s

Range(s) == {s[i] : i \in DOMAIN s}

SeqsUpTo(S, n) == UNION {[1..k -> S] : k \in 0..n}

\* str(n) for the count suffix of create_item
CountStr(n) == ToString(n)

-----------------------------------------------------------------------------
(* Paths and format detection *)

Upper == <<"A","B","C","D","E","F","G","H","I","J","K","L","M",
           "N","O","P","Q","R","S","T","U","V","W","X","Y","Z">>
LowerAlpha == <<"a","b","c","d","e","f","g","h","i","j","k","l","m",
                "n","o","p","q","r","s","t","u","v","w","x","y","z">>

\* str.lower() on one character
LowerChar(c) ==
    IF \E i \in DOMAIN Upper : Upper[i] = c
    THEN LowerAlpha[CHOOSE i \in DOMAIN Upper : Upper[i] = c]
    ELSE c

\* str.lower()
Lower(s) == [i \in DOMAIN s |-> LowerChar(s[i])]

\* str.endswith(suffix)
EndsWith(s, suffix) ==
    /\ Len(s) >= Len(suffix)
    /\ SubSeq(s, Len(s) - Len(suffix) + 1, Len(s)) = suffix

ContentExportExt == <<".","c","o","n","t","e","n","t","e","x","p","o","r","t">>

is_contentexport_case_sensitive(file_path) == EndsWith(file_path, ContentExportExt)

is_contentexport(file_path) == EndsWith(Lower(file_path), ContentExportExt)

BackupPaths ==
    { <<"b">> \o ContentExportExt,
      <<"B",".","C","o","n","t","e","n","t","E","X","P","O","R","T">>,
      <<"b">> \o ContentExportExt \o <<".","z","i","p">>,
      <<"c","o","n","t","e","n","t","e","x","p","o","r","t">> }

-----------------------------------------------------------------------------
(* The portal *)

ItemTypes == {"Web Map", "Feature Service", "Service Definition"}

PreTitles == { <<"T">>, <<"T", "2">> }

\* the portals of up to MaxPre items; ids are opaque, so the items are listed
\* with the shorter titles first
PrePortals ==
    { p \in UNION { [1..k -> [title : PreTitles, type : {"Web Map"}, res : {0}]] :
                      k \in 0..MaxPre } :
        \A i \in DOMAIN p : i > 1 => Len(p[i-1].title) <= Len(p[i].title) }

Call(op, id, title, n) == [op |-> op, id |-> id, title |-> title, n |-> n]

\* gis.content.search(f'title:"{title}"'): the ids of the items with that title
Search(its, title) == {i \in DOMAIN its : its[i].title = title}

\* gis.content.add / publish / create_service / import: a new item under a new id
AddItem(its, id, title, type) ==
    (id :> [title |-> title, type |-> type, res |-> 0]) @@ its

\* item.update(item_properties={'title': ...})
UpdateTitle(its, id, title) == [its EXCEPT ![id].title = title]

\* item.resources.add(file=..., file_name=...)
AddResource(its, id) == [its EXCEPT ![id].res = @ + 1]

-----------------------------------------------------------------------------
(* Results *)

\* (success, ids) of restore_contentexport; (False, None) has no ids
OcmRet(success, ids) == [success |-> success, ids |-> ids]

\* (success, value) of restore_backup; value is "ids", "msg" or "None"
RbRet(success, value) == [success |-> success, value |-> value]

NotStarted == RbRet(FALSE, "running")

\* a finder's result: None, and the value before the finder has run
NoEntry == [name |-> <<>>, place |-> "None", dir |-> FALSE]
NotSearched == [name |-> <<>>, place |-> "unset", dir |-> FALSE]

OcmInit ==
    [ manifest |-> <<>>,          \* items_to_import, in listing order
      fs_in_package |-> 0,        \* len(feature_services_in_package)
      sd_in_package |-> 0,        \* len(service_definitions_in_package)
      imported |-> <<>>,          \* imported_items, as returned by import_content
      idx |-> 0,                  \* loop position in imported_items / item_ids
      item_ids |-> <<>>,
      fs_by_type |-> 0,           \* len(imported_by_type['Feature Service'])
      verified_ids |-> <<>>,
      said_all_renamed |-> FALSE, \* "All items have been renamed" was logged
      returned |-> FALSE,
      ret |-> OcmRet(FALSE, <<>>) ]

ZipInit ==
    [ extract_dir |-> "None",     \* local extract_dir of restore_zip
      archive |-> [meta |-> "absent", title |-> "nokey", type |-> "nokey",
                   gdb |-> "none", resources |-> "absent", nres |-> 0],
      base_title |-> <<>>,
      item_type |-> "None",
      new_title |-> <<>>,
      title |-> <<>>,             \* local title of create_item
      published |-> "no",         \* publish_csv: "no" | "item" | "empty" | "raise"
      item_id |-> NoneId,
      new_item |-> NoneId,        \* gis.content.get(item_id) in restore_zip
      res_idx |-> 0,
      reported_title |-> <<>>,    \* the "New Title" line, <<>> when not logged
      tree |-> {},                \* entries under extract_dir, for the finders
      found |-> [metadata |-> NotSearched, data |-> NotSearched,
                 thumbnail |-> NotSearched, resources |-> NotSearched],
      returned |-> FALSE,
      ret |-> NoneId ]

-----------------------------------------------------------------------------
(* Command line *)

CommandLines ==
    [kind : {"ok"}, backup : BackupPaths, overwrite : BOOLEAN, keep_metadata : {TRUE}]
    \cup
    [kind : {"missing_backup", "help"}, backup : {<<>>}, overwrite : {FALSE},
     keep_metadata : {TRUE}]

\* Whether a directory already exists at the extraction location, the archive
\* path without its extension. Only extract_zip and the cleanup of restore_zip
\* touch that location, so the choice is left open for the runs that get there.
ExtractDirBefore(a, kind) ==
    IF a.kind = "ok" /\ kind = "file" /\ ~is_contentexport(a.backup)
    THEN BOOLEAN ELSE {FALSE}

Init ==
    /\ pc = "parse_args"
    /\ args \in CommandLines
    /\ file_kind \in {"absent", "dir", "file"}
    /\ pre \in PrePortals
    /\ items = pre
    /\ next_id = Len(pre) + 1
    /\ calls = <<>>
    /\ invoked = <<>>
    /\ raised = {}
    /\ ocm = OcmInit
    /\ zip = ZipInit
    /\ fs \in {[dir_exists |-> b, was_there |-> b] : b \in ExtractDirBefore(args, file_kind)}
    /\ result = NotStarted
    /\ exit_code = -1

-----------------------------------------------------------------------------
(* main / restore_backup *)

\* sys.exit(0) on success, sys.exit(1) otherwise
ExitAlwaysZero(success) == 0

ExitCode(success) == IF success THEN 0 ELSE 1

\* argparse: a missing required --backup ends the process with status 2,
\* --help with status 0, before main calls restore_backup
ParseArgs ==
    /\ pc = "parse_args"
    /\ IF args.kind = "ok"
       THEN /\ pc' = "validate"
            /\ UNCHANGED exit_code
       ELSE /\ pc' = "exit"
            /\ exit_code' = (IF args.kind = "help" THEN 0 ELSE 2)
    /\ UNCHANGED <<args, file_kind, items, pre, next_id, calls, invoked, raised,
                   ocm, zip, fs, result>>

\* os.path.exists(backup_path) and os.path.isfile(backup_path)
backup_exists(kind) == kind # "absent"

backup_is_file(kind) == kind = "file"

\* restore_backup, local validation of backup_path
Validate ==
    /\ pc = "validate"
    /\ IF backup_is_file(file_kind)
       THEN /\ pc' = "connect"
            /\ UNCHANGED result
       ELSE /\ pc' = "main_exit"
            /\ result' = RbRet(FALSE, "None")
    /\ UNCHANGED <<args, file_kind, items, pre, next_id, calls, invoked, raised,
                   ocm, zip, fs, exit_code>>

\* the except clause of restore_backup
restore_backup_except_success == RbRet(TRUE, "None")

restore_backup_except == RbRet(FALSE, "None")

\* connect_to_gis logs and re-raises; restore_backup catches
Connect ==
    /\ pc = "connect"
    /\ \E outcome \in {"ok", "raise"} :
         /\ calls' = Append(calls, Call("GIS", NoneId, <<>>, 0))
         /\ IF outcome = "ok"
            THEN /\ pc' = "dispatch"
                 /\ UNCHANGED <<raised, result>>
            ELSE /\ pc' = "main_exit"
                 /\ raised' = raised \cup {"connect"}
                 /\ result' = restore_backup_except
    /\ UNCHANGED <<args, file_kind, items, pre, next_id, invoked, ocm, zip, fs,
                   exit_code>>

Dispatch ==
    /\ pc = "dispatch"
    /\ IF is_contentexport(args.backup)
       THEN /\ pc' = "ocm_start"
            /\ invoked' = Append(invoked, "restore_contentexport")
       ELSE /\ pc' = "zip_extract"
            /\ invoked' = Append(invoked, "restore_zip")
    /\ UNCHANGED <<args, file_kind, items, pre, next_id, calls, raised, ocm, zip,
                   fs, result, exit_code>>

\* what restore_backup returns once the chosen restore has returned
RestoreBackupReturn ==
    /\ pc = "rb_return"
    /\ result' =
         IF ocm.returned
         THEN IF ocm.ret.success /\ ocm.ret.ids # <<>>
              THEN RbRet(TRUE, "ids")
              ELSE RbRet(FALSE, "msg")
         ELSE IF zip.ret # NoneId
              THEN RbRet(TRUE, "ids")
              ELSE RbRet(FALSE, "msg")
    /\ pc' = "main_exit"
    /\ UNCHANGED <<args, file_kind, items, pre, next_id, calls, invoked, raised,
                   ocm, zip, fs, exit_code>>

MainExit ==
    /\ pc = "main_exit"
    /\ exit_code' = ExitCode(result.success)
    /\ pc' = "exit"
    /\ UNCHANGED <<args, file_kind, items, pre, next_id, calls, invoked, raised,
                   ocm, zip, fs, result>>

-----------------------------------------------------------------------------
(* restore_contentexport *)

Manifests == SeqsUpTo([title : {<<"T">>}, type : ItemTypes], MaxPkg)

CountType(m, type) == Cardinality({i \in DOMAIN m : m[i].type = type})

\* the entries of m whose index is not in skip, in order
Sub(m, skip) ==
    LET F[i \in 0..Len(m)] ==
            IF i = 0 THEN <<>>
            ELSE IF i \in skip THEN F[i-1] ELSE Append(F[i-1], m[i])
    IN F[Len(m)]

\* import_content(..., search_existing_items=True) hands back an existing item
\* of the same title instead of a new one
ImportedIdSearchExisting(its, entry, fresh) ==
    IF Search(its, entry.title) # {}
    THEN CHOOSE i \in Search(its, entry.title) : TRUE
    ELSE fresh

\* import_content(..., search_existing_items=False): every imported entry is a
\* new item under a new id
ImportedId(its, entry, fresh) == fresh

OcmReturn(success, ids) ==
    [ocm EXCEPT !.returned = TRUE, !.ret = OcmRet(success, ids)]

\* file check and OfflineContentManager availability
OcmStart ==
    /\ pc = "ocm_start"
    /\ \E has_offline \in BOOLEAN :
         IF file_kind = "file" /\ has_offline
         THEN /\ pc' = "ocm_list"
              /\ UNCHANGED ocm
         ELSE /\ pc' = "rb_return"
              /\ ocm' = OcmReturn(FALSE, <<>>)
    /\ UNCHANGED <<args, file_kind, items, pre, next_id, calls, invoked, raised,
                   zip, fs, result, exit_code>>

\* "if items_dict:" inside the try of Step 1, taken without the emptiness test
list_items_usable_any(outcome, m) == outcome = "ok"

\* Step 1 goes on to the import only when list_items returned a non-empty dict
list_items_usable(outcome, m) == outcome = "ok" /\ m # <<>>

\* Step 1: ocm.list_items and the partition by type
OcmListItems ==
    /\ pc = "ocm_list"
    /\ calls' = Append(calls, Call("list_items", NoneId, <<>>, 0))
    /\ \E outcome \in {"ok", "raise"}, m \in Manifests :
         IF list_items_usable(outcome, m)
         THEN /\ ocm' = [ocm EXCEPT !.manifest = m,
                                    !.fs_in_package = CountType(m, "Feature Service"),
                                    !.sd_in_package = CountType(m, "Service Definition")]
              /\ pc' = "ocm_import"
              /\ UNCHANGED raised
         ELSE /\ m = <<>>
              /\ ocm' = OcmReturn(FALSE, <<>>)
              /\ pc' = "rb_return"
              /\ raised' = IF outcome = "raise" THEN raised \cup {"list_items"} ELSE raised
    /\ UNCHANGED <<args, file_kind, items, pre, next_id, invoked, zip, fs, result,
                   exit_code>>

\* Step 2: ocm.import_content; the portal creates the entries it does not skip,
\* also when the call then raises (failure_rollback=False)
OcmImport ==
    /\ pc = "ocm_import"
    /\ \E outcome \in {"list", "other", "raise"}, skip \in SUBSET DOMAIN ocm.manifest :
         LET kept == Sub(ocm.manifest, skip)
             got  == [j \in DOMAIN kept |->
                        [id    |-> ImportedId(items, kept[j], next_id + j - 1),
                         title |-> kept[j].title,
                         type  |-> kept[j].type]]
             created == {j \in DOMAIN got : got[j].id \notin DOMAIN items}
         IN  /\ items' = [i \in DOMAIN items \cup {got[j].id : j \in created} |->
                            IF i \in DOMAIN items THEN items[i]
                            ELSE LET j == CHOOSE j \in created : got[j].id = i
                                 IN [title |-> got[j].title, type |-> got[j].type,
                                     res |-> 0]]
             /\ next_id' = next_id + Len(kept)
             /\ calls' = Append(calls, Call("import_content", NoneId, <<>>, Len(kept)))
             /\ IF outcome = "list"
                THEN /\ ocm' = [ocm EXCEPT !.imported = got, !.idx = 1]
                     /\ pc' = "ocm_process"
                     /\ UNCHANGED raised
                ELSE /\ ocm' = OcmReturn(FALSE, <<>>)
                     /\ pc' = "rb_return"
                     /\ raised' = IF outcome = "raise"
                                  THEN raised \cup {"import_content"} ELSE raised
    /\ UNCHANGED <<args, file_kind, pre, invoked, zip, fs, result, exit_code>>

\* Step 3: one iteration of the loop over imported_items
OcmProcessItem ==
    /\ pc = "ocm_process"
    /\ ocm.idx <= Len(ocm.imported)
    /\ LET item == ocm.imported[ocm.idx]
           new_title == Suffixed(item.title, TS)
       IN \E outcome \in {"ok", "update_raise", "attr_raise"} :
            IF outcome = "attr_raise"
            THEN /\ raised' = raised \cup {"item.attr"}
                 /\ ocm' = [ocm EXCEPT !.idx = @ + 1]
                 /\ UNCHANGED <<items, calls>>
            ELSE /\ calls' = Append(calls, Call("update", item.id, new_title, 0))
                 /\ items' = IF outcome = "ok"
                             THEN UpdateTitle(items, item.id, new_title)
                             ELSE items
                 /\ raised' = IF outcome = "ok" THEN raised
                              ELSE raised \cup {"item.update"}
                 /\ ocm' = [ocm EXCEPT
                              !.idx = @ + 1,
                              !.item_ids = Append(@, item.id),
                              !.fs_by_type = IF item.type = "Feature Service"
                                             THEN @ + 1 ELSE @]
    /\ UNCHANGED <<pc, args, file_kind, pre, next_id, invoked, zip, fs, result,
                   exit_code>>

\* Step 3.5: when no Feature Service of the package came back, look the
\* existing ones up (for the log only), then enter Step 4 or give up
OcmConflictCheck ==
    /\ pc = "ocm_process"
    /\ ocm.idx > Len(ocm.imported)
    /\ LET fs_entries == SelectSeq(ocm.manifest, LAMBDA e : e.type = "Feature Service")
           searches == [j \in DOMAIN fs_entries |->
                          Call("search", NoneId, fs_entries[j].title,
                               Cardinality({i \in Search(items, fs_entries[j].title) :
                                              items[i].type = "Feature Service"}))]
       IN IF ocm.fs_in_package > 0 /\ ocm.fs_by_type = 0
          THEN /\ calls' = calls \o searches
               /\ \E search_raises \in BOOLEAN :
                    raised' = IF search_raises THEN raised \cup {"conflict search"}
                              ELSE raised
          ELSE UNCHANGED <<calls, raised>>
    /\ IF ocm.item_ids # <<>>
       THEN /\ ocm' = [ocm EXCEPT !.idx = 1]
            /\ pc' = "ocm_verify"
       ELSE /\ ocm' = OcmReturn(FALSE, <<>>)
            /\ pc' = "rb_return"
    /\ UNCHANGED <<args, file_kind, items, pre, next_id, invoked, zip, fs, result,
                   exit_code>>

\* Step 4: one iteration of the verification loop over item_ids
OcmVerifyItem ==
    /\ pc = "ocm_verify"
    /\ ocm.idx <= Len(ocm.item_ids)
    /\ LET item_id == ocm.item_ids[ocm.idx]
       IN \E outcome \in {"found", "none", "raise"} :
            /\ outcome = "found" => item_id \in DOMAIN items
            /\ calls' = Append(calls, Call("get", item_id, <<>>, 0))
            /\ raised' = IF outcome = "raise" THEN raised \cup {"verify get"}
                         ELSE raised
            /\ ocm' = [ocm EXCEPT
                         !.idx = @ + 1,
                         !.verified_ids = IF outcome = "found"
                                          THEN Append(@, item_id) ELSE @]
    /\ UNCHANGED <<pc, args, file_kind, items, pre, next_id, invoked, zip, fs,
                   result, exit_code>>

\* the summary after Step 4 and the return
OcmFinish ==
    /\ pc = "ocm_verify"
    /\ ocm.idx > Len(ocm.item_ids)
    /\ ocm' = IF ocm.verified_ids # <<>>
              THEN [OcmReturn(TRUE, ocm.verified_ids) EXCEPT !.said_all_renamed = TRUE]
              ELSE OcmReturn(TRUE, ocm.item_ids)
    /\ pc' = "rb_return"
    /\ UNCHANGED <<args, file_kind, items, pre, next_id, calls, invoked, raised,
                   zip, fs, result, exit_code>>

-----------------------------------------------------------------------------
(* restore_zip: extraction and artifacts *)

\* What the archive holds. Each part is fixed when the run first reads it:
\* the metadata file at load_backup_artifacts, the geodatabase at
\* find_geodatabase, resources.zip at restore_resources.
MetaFiles ==
    [meta : {"absent", "unparsable"}, title : {"nokey"}, type : {"nokey"}]
    \cup
    [meta : {"present"}, title : {"nokey", "null", "T"},
     type : {"nokey", "null", "Web Map", "Feature Service"}]

GdbKinds == {"none", "gdb", "export_zip_gdb", "export_zip_empty", "export_zip_corrupt"}

\* base_title of load_backup_artifacts
BaseTitle(m) ==
    IF m.meta = "absent" THEN <<"D">>            \* os.path.basename(extract_dir)
    ELSE IF m.title = "T" THEN <<"T">>           \* meta.get("title")
    ELSE <<"F">>                                 \* metadata file name, suffix removed

\* meta.get("type", "Web Map") in restore_zip
ItemType(m) ==
    IF m.type = "nokey" THEN "Web Map"
    ELSE IF m.type = "null" THEN "None"
    ELSE m.type

\* meta.get("title", base_title) in create_item
create_item_title(m, base_title) ==
    IF m.title = "nokey" THEN base_title
    ELSE IF m.title = "null" THEN NoneTitle
    ELSE <<"T">>

\* item_type = item_type or meta.get("type", "Web Map") in create_item: a None
\* item_type falls back to the metadata, whose null "type" is None again
create_item_type(item_type, m) ==
    IF item_type # "None" THEN item_type ELSE ItemType(m)

\* the except clause of restore_zip
restore_zip_except(item_id) == NoneId

\* extract_zip: ensure_dir(base), which keeps a directory that is already there,
\* then extractall; restore_zip binds extract_dir only when extract_zip returns
ZipExtract ==
    /\ pc = "zip_extract"
    /\ \E outcome \in {"ok", "raise"} :
         /\ fs' = [fs EXCEPT !.dir_exists = TRUE]
         /\ IF outcome = "ok"
            THEN /\ zip' = [zip EXCEPT !.extract_dir = "base"]
                 /\ pc' = "zip_load"
                 /\ UNCHANGED raised
            ELSE /\ zip' = [zip EXCEPT !.ret = restore_zip_except(zip.item_id)]
                 /\ pc' = "zip_finally"
                 /\ raised' = raised \cup {"extractall"}
    /\ UNCHANGED <<args, file_kind, items, pre, next_id, calls, invoked, ocm,
                   result, exit_code>>

\* load_backup_artifacts, then item_type, base_title and new_title of restore_zip
\* and the branch on item_type
ZipLoadArtifacts ==
    /\ pc = "zip_load"
    /\ \E m \in MetaFiles :
         /\ zip' = [zip EXCEPT
                      !.archive = [@ EXCEPT !.meta = m.meta, !.title = m.title,
                                            !.type = m.type],
                      !.base_title = BaseTitle(m),
                      !.item_type = ItemType(m),
                      !.new_title = Suffixed(BaseTitle(m), TS)]
         /\ pc' = IF ItemType(m) = "Feature Service" THEN "fs_find" ELSE "ci_search"
    /\ UNCHANGED <<args, file_kind, items, pre, next_id, calls, invoked, raised,
                   ocm, fs, result, exit_code>>

-----------------------------------------------------------------------------
(* create_item *)

\* the title create_item uses after the search returned n matches
CreateItemTitleNoSuffix(title, n) == title

CreateItemTitle(title, n) ==
    IF n > 0 THEN Suffixed(title, CountStr(n + 1)) ELSE title

\* title = meta.get("title", base_title) and the search for existing items
CreateItemSearch ==
    /\ pc = "ci_search"
    /\ LET title == create_item_title(zip.archive, zip.new_title)
           n == Cardinality(Search(items, title))
       IN \E outcome \in {"ok", "raise"} :
            IF outcome = "ok"
            THEN /\ calls' = Append(calls, Call("search", NoneId, title, n))
                 /\ zip' = [zip EXCEPT !.title = CreateItemTitle(title, n)]
                 /\ UNCHANGED raised
            ELSE /\ calls' = Append(calls, Call("search", NoneId, title, 0))
                 /\ zip' = [zip EXCEPT !.title = title]
                 /\ raised' = raised \cup {"create_item search"}
    /\ pc' = "ci_add"
    /\ UNCHANGED <<args, file_kind, items, pre, next_id, invoked, ocm, fs, result,
                   exit_code>>

\* item_type = item_type or meta.get("type", "Web Map"), then gis.content.add
CreateItemAdd ==
    /\ pc = "ci_add"
    /\ \E outcome \in {"ok", "raise"} :
         /\ calls' = Append(calls, Call("add", NoneId, zip.title, 0))
         /\ IF outcome = "ok"
            THEN /\ items' = AddItem(items, next_id, zip.title,
                                     create_item_type(zip.item_type, zip.archive))
                 /\ next_id' = next_id + 1
                 /\ zip' = [zip EXCEPT !.item_id = next_id]
                 /\ pc' = "zip_created"
                 /\ UNCHANGED raised
            ELSE /\ zip' = [zip EXCEPT !.ret = restore_zip_except(zip.item_id)]
                 /\ pc' = "zip_finally"
                 /\ raised' = raised \cup {"content.add"}
                 /\ UNCHANGED <<items, next_id>>
    /\ UNCHANGED <<args, file_kind, pre, invoked, ocm, fs, result, exit_code>>

-----------------------------------------------------------------------------
(* restore_feature_service_from_zip *)

\* gdb_path ends with ".gdb" once find_geodatabase and the extraction of an
\* _export.zip are through: a .gdb folder in the backup, or one inside the
\* _export.zip
gdb_found_any_export(g) == g \in {"gdb", "export_zip_gdb", "export_zip_empty"}

gdb_found(g) == g \in {"gdb", "export_zip_gdb"}

\* find_geodatabase and, for an _export.zip, its extraction and the search for
\* the .gdb folder inside; every failure here returns None to restore_zip
FsFindGdb ==
    /\ pc = "fs_find"
    /\ \E g \in GdbKinds :
         /\ zip' = [zip EXCEPT !.archive = [@ EXCEPT !.gdb = g]]
         /\ pc' = IF gdb_found(g) THEN "fs_publish" ELSE "zip_created"
         /\ raised' = IF g = "export_zip_corrupt"
                      THEN raised \cup {"gdb extractall"} ELSE raised
    /\ UNCHANGED <<args, file_kind, items, pre, next_id, calls, invoked, ocm, fs,
                   result, exit_code>>

\* gis.content.publish_csv: an item, an empty result, or an exception
FsPublish ==
    /\ pc = "fs_publish"
    /\ \E outcome \in {"item", "empty", "raise"} :
         /\ calls' = Append(calls, Call("publish", NoneId, zip.new_title, 0))
         /\ IF outcome = "item"
            THEN /\ items' = AddItem(items, next_id, zip.new_title, "Feature Service")
                 /\ next_id' = next_id + 1
                 /\ zip' = [zip EXCEPT !.item_id = next_id, !.published = "item"]
                 /\ pc' = "fs_metadata"
                 /\ UNCHANGED raised
            ELSE IF outcome = "empty"
            THEN /\ zip' = [zip EXCEPT !.published = "empty"]
                 /\ pc' = "zip_created"
                 /\ UNCHANGED <<items, next_id, raised>>
            ELSE /\ zip' = [zip EXCEPT !.published = "raise"]
                 /\ pc' = "fs_fallback"
                 /\ raised' = raised \cup {"publish"}
                 /\ UNCHANGED <<items, next_id>>
    /\ UNCHANGED <<args, file_kind, pre, invoked, ocm, fs, result, exit_code>>

\* keep_metadata and meta: re-fetch the published item and update its properties;
\* any failure is logged and the id is returned all the same
FsUpdateMetadata ==
    /\ pc = "fs_metadata"
    /\ \E outcome \in {"updated", "get_none", "get_raise", "update_raise"} :
         LET got == Call("get", zip.item_id, <<>>, 0)
             upd == Call("update", zip.item_id, zip.new_title, 0)
         IN  /\ calls' = IF outcome \in {"updated", "update_raise"}
                         THEN calls \o <<got, upd>>
                         ELSE Append(calls, got)
             /\ items' = IF outcome = "updated"
                         THEN UpdateTitle(items, zip.item_id, zip.new_title)
                         ELSE items
             /\ raised' = IF outcome \in {"get_raise", "update_raise"}
                          THEN raised \cup {"metadata update"} ELSE raised
    /\ pc' = "zip_created"
    /\ UNCHANGED <<args, file_kind, pre, next_id, invoked, ocm, zip, fs, result,
                   exit_code>>

\* the fallback after publish_csv raised: create_feature_service_item, which
\* returns None when create_service returns nothing or raises
FsFallback ==
    /\ pc = "fs_fallback"
    /\ \E outcome \in {"item", "none", "raise"} :
         /\ calls' = Append(calls, Call("create_service", NoneId, zip.new_title, 0))
         /\ IF outcome = "item"
            THEN /\ items' = AddItem(items, next_id, zip.new_title, "Feature Service")
                 /\ next_id' = next_id + 1
                 /\ zip' = [zip EXCEPT !.item_id = next_id]
                 /\ UNCHANGED raised
            ELSE /\ raised' = IF outcome = "raise"
                              THEN raised \cup {"create_service"} ELSE raised
                 /\ UNCHANGED <<items, next_id, zip>>
    /\ pc' = "zip_created"
    /\ UNCHANGED <<args, file_kind, pre, invoked, ocm, fs, result, exit_code>>

-----------------------------------------------------------------------------
(* restore_zip: after creation *)

ResourceArchives ==
    [resources : {"absent", "corrupt"}, nres : {0}]
    \cup [resources : {"present"}, nres : 0..MaxRes]

\* "if not item_id: return None", else gis.content.get(item_id); an exception of
\* the re-fetch reaches the except clause of restore_zip
ZipGetCreated ==
    /\ pc = "zip_created"
    /\ IF zip.item_id = NoneId
       THEN /\ zip' = [zip EXCEPT !.ret = NoneId]
            /\ pc' = "zip_finally"
            /\ UNCHANGED <<calls, raised>>
       ELSE \E outcome \in {"found", "none", "raise"} :
              /\ calls' = Append(calls, Call("get", zip.item_id, <<>>, 0))
              /\ IF outcome = "found"
                 THEN /\ zip' = [zip EXCEPT !.new_item = zip.item_id]
                      /\ pc' = "zip_resources"
                      /\ UNCHANGED raised
                 ELSE IF outcome = "none"
                 THEN /\ pc' = "zip_report"
                      /\ UNCHANGED <<zip, raised>>
                 ELSE /\ zip' = [zip EXCEPT !.ret = restore_zip_except(zip.item_id)]
                      /\ pc' = "zip_finally"
                      /\ raised' = raised \cup {"content.get"}
    /\ UNCHANGED <<args, file_kind, items, pre, next_id, invoked, ocm, fs, result,
                   exit_code>>

\* restore_resources up to the upload loop: nothing to do without resources.zip,
\* and a resources.zip that cannot be extracted is logged and skipped
RestoreResourcesStart ==
    /\ pc = "zip_resources"
    /\ \E r \in ResourceArchives :
         /\ zip' = [zip EXCEPT !.archive = [@ EXCEPT !.resources = r.resources,
                                                    !.nres = r.nres],
                               !.res_idx = 1]
         /\ pc' = IF r.resources = "present" THEN "zip_res_add" ELSE "zip_report"
         /\ raised' = IF r.resources = "corrupt"
                      THEN raised \cup {"resources extractall"} ELSE raised
    /\ UNCHANGED <<args, file_kind, items, pre, next_id, calls, invoked, ocm, fs,
                   result, exit_code>>

\* the file the upload loop turns to after rm.add on file idx of n: the except
\* inside the loop logs the failure and the loop goes on with the next file
next_resource_stop_on_failure(idx, n, outcome) ==
    IF outcome = "raise" THEN n + 1 ELSE idx + 1

next_resource(idx, n, outcome) == idx + 1

\* one iteration of the upload loop: rm.add, a failure is logged and skipped
RestoreResourceAdd ==
    /\ pc = "zip_res_add"
    /\ zip.res_idx <= zip.archive.nres
    /\ \E outcome \in {"ok", "raise"} :
         /\ calls' = Append(calls, Call("resources.add", zip.new_item, <<>>, zip.res_idx))
         /\ items' = IF outcome = "ok" THEN AddResource(items, zip.new_item) ELSE items
         /\ raised' = IF outcome = "raise" THEN raised \cup {"resources.add"} ELSE raised
         /\ zip' = [zip EXCEPT !.res_idx = next_resource(@, zip.archive.nres, outcome)]
    /\ UNCHANGED <<pc, args, file_kind, pre, next_id, invoked, ocm, fs, result,
                   exit_code>>

RestoreResourcesEnd ==
    /\ pc = "zip_res_add"
    /\ zip.res_idx > zip.archive.nres
    /\ pc' = "zip_report"
    /\ UNCHANGED <<args, file_kind, items, pre, next_id, calls, invoked, raised,
                   ocm, zip, fs, result, exit_code>>

\* the closing report ("New Title: {new_title}") and return item_id
ZipReport ==
    /\ pc = "zip_report"
    /\ zip' = [zip EXCEPT !.reported_title = zip.new_title, !.ret = zip.item_id]
    /\ pc' = "zip_finally"
    /\ UNCHANGED <<args, file_kind, items, pre, next_id, calls, invoked, raised,
                   ocm, fs, result, exit_code>>

\* the finally clause: shutil.rmtree(extract_dir) when extract_dir is set and is
\* a directory, with everything under it
ZipFinally ==
    /\ pc = "zip_finally"
    /\ fs' = IF zip.extract_dir # "None" /\ fs.dir_exists
             THEN [fs EXCEPT !.dir_exists = FALSE]
             ELSE fs
    /\ zip' = [zip EXCEPT !.returned = TRUE]
    /\ pc' = "rb_return"
    /\ UNCHANGED <<args, file_kind, items, pre, next_id, calls, invoked, raised,
                   ocm, result, exit_code>>

-----------------------------------------------------------------------------
(* The artifact finders of load_backup_artifacts *)

MetadataSuffix == <<"_","m","e","t","a","d","a","t","a",".","j","s","o","n">>
MetadataFullSuffix == <<"_","m","e","t","a","d","a","t","a","_","f","u","l","l",".","j","s","o","n">>
DataSuffix == <<"_","d","a","t","a",".","j","s","o","n">>
ThumbnailNames == { <<"t","h","u","m","b","n","a","i","l",".","p","n","g">>,
                    <<"t","h","u","m","b","n","a","i","l",".","j","p","g">>,
                    <<"t","h","u","m","b","n","a","i","l",".","j","p","e","g">> }
ResourcesName == <<"r","e","s","o","u","r","c","e","s",".","z","i","p">>

\* names an extracted archive may hold
EntryNames ==
    { <<"a">> \o MetadataSuffix,
      <<"a">> \o MetadataFullSuffix,
      <<"a">> \o DataSuffix,
      <<"T","h","u","m","b","n","a","i","l",".","P","N","G">>,
      ResourcesName,
      <<"x",".","t","x","t">> }

\* an entry under extract_dir: its name, whether it sits at the top level or
\* in a subdirectory, and whether it is itself a directory
Entries == [name : EntryNames, place : {"top", "sub"}, dir : BOOLEAN]

\* the trees of at most MaxFiles entries; one directory holds a name once
Trees ==
    { t \in SUBSET Entries :
        /\ Cardinality(t) <= MaxFiles
        /\ \A e1, e2 \in t :
             (e1.place = "top" /\ e2.place = "top" /\ e1.name = e2.name) => e1 = e2 }

\* f.endswith("_metadata.json") and not f.endswith("_metadata_full.json")
IsMetadataName(f) == EndsWith(f, MetadataSuffix) /\ ~EndsWith(f, MetadataFullSuffix)

\* f.endswith("_data.json")
IsDataName(f) == EndsWith(f, DataSuffix)

\* f.lower() in ["thumbnail.png", "thumbnail.jpg", "thumbnail.jpeg"]
IsThumbnailName(f) == Lower(f) \in ThumbnailNames

IsResourcesName(f) == f = ResourcesName

\* os.listdir(extract_dir): every top-level entry, files and directories alike
ListDir(tree) == {e \in tree : e.place = "top"}

\* the files os.walk(extract_dir) yields, over the whole tree
WalkFiles(tree) == {e \in tree : ~e.dir}

\* what a finder may return: the first match of the top-level listing when
\* there is one, else the first matching file of the walk, else None; the
\* order of a listing is the file system's
FirstMatch(top, walk) ==
    IF top # {} THEN top
    ELSE IF walk # {} THEN walk
    ELSE {NoEntry}

find_metadata_file(tree) ==
    FirstMatch({e \in ListDir(tree) : IsMetadataName(e.name)},
               {e \in WalkFiles(tree) : IsMetadataName(e.name)})

find_data_file(tree) ==
    FirstMatch({e \in ListDir(tree) : IsDataName(e.name)},
               {e \in WalkFiles(tree) : IsDataName(e.name)})

find_thumbnail(tree) ==
    FirstMatch({e \in ListDir(tree) : IsThumbnailName(e.name)},
               {e \in WalkFiles(tree) : IsThumbnailName(e.name)})

\* os.path.isfile(os.path.join(extract_dir, "resources.zip")), then the walk
find_resources_zip(tree) ==
    FirstMatch({e \in ListDir(tree) : IsResourcesName(e.name) /\ ~e.dir},
               {e \in WalkFiles(tree) : IsResourcesName(e.name)})

FinderInit ==
    /\ pc = "find_metadata"
    /\ args = [kind |-> "ok", backup |-> <<"b", ".", "z", "i", "p">>,
               overwrite |-> FALSE, keep_metadata |-> TRUE]
    /\ file_kind = "file"
    /\ pre = <<>>
    /\ items = pre
    /\ next_id = 1
    /\ calls = <<>>
    /\ invoked = <<"restore_zip">>
    /\ raised = {}
    /\ ocm = OcmInit
    /\ \E t \in Trees : zip = [ZipInit EXCEPT !.extract_dir = "base", !.tree = t]
    /\ fs = [dir_exists |-> TRUE, was_there |-> FALSE]
    /\ result = NotStarted
    /\ exit_code = -1

FindMetadataFile ==
    /\ pc = "find_metadata"
    /\ \E r \in find_metadata_file(zip.tree) : zip' = [zip EXCEPT !.found.metadata = r]
    /\ pc' = "find_data"
    /\ UNCHANGED <<args, file_kind, items, pre, next_id, calls, invoked, raised,
                   ocm, fs, result, exit_code>>

FindDataFile ==
    /\ pc = "find_data"
    /\ \E r \in find_data_file(zip.tree) : zip' = [zip EXCEPT !.found.data = r]
    /\ pc' = "find_thumbnail"
    /\ UNCHANGED <<args, file_kind, items, pre, next_id, calls, invoked, raised,
                   ocm, fs, result, exit_code>>

FindThumbnail ==
    /\ pc = "find_thumbnail"
    /\ \E r \in find_thumbnail(zip.tree) : zip' = [zip EXCEPT !.found.thumbnail = r]
    /\ pc' = "find_resources"
    /\ UNCHANGED <<args, file_kind, items, pre, next_id, calls, invoked, raised,
                   ocm, fs, result, exit_code>>

FindResourcesZip ==
    /\ pc = "find_resources"
    /\ \E r \in find_resources_zip(zip.tree) : zip' = [zip EXCEPT !.found.resources = r]
    /\ pc' = "artifacts_found"
    /\ UNCHANGED <<args, file_kind, items, pre, next_id, calls, invoked, raised,
                   ocm, fs, result, exit_code>>

FinderNext ==
    \/ FindMetadataFile
    \/ FindDataFile
    \/ FindThumbnail
    \/ FindResourcesZip

FinderSpec == FinderInit /\ [][FinderNext]_vars

-----------------------------------------------------------------------------

Next ==
    \/ ParseArgs
    \/ Validate
    \/ Connect
    \/ Dispatch
    \/ OcmStart
    \/ OcmListItems
    \/ OcmImport
    \/ OcmProcessItem
    \/ OcmConflictCheck
    \/ OcmVerifyItem
    \/ OcmFinish
    \/ ZipExtract
    \/ ZipLoadArtifacts
    \/ CreateItemSearch
    \/ CreateItemAdd
    \/ FsFindGdb
    \/ FsPublish
    \/ FsUpdateMetadata
    \/ FsFallback
    \/ ZipGetCreated
    \/ RestoreResourcesStart
    \/ RestoreResourceAdd
    \/ RestoreResourcesEnd
    \/ ZipReport
    \/ ZipFinally
    \/ RestoreBackupReturn
    \/ MainExit

Spec == Init /\ [][Next]_vars

-----------------------------------------------------------------------------
(* Properties *)

Finished == pc = "exit"

ArgsParsed == args.kind = "ok"

CallsOf(ops) == {k \in DOMAIN calls : calls[k].op \in ops}

\* the restore produced at least one restored item id
Restored ==
    \/ zip.returned /\ zip.ret # NoneId
    \/ ocm.returned /\ ocm.ret.success /\ ocm.ret.ids # <<>>

\* C1: no item that was in the portal before the run is deleted or changed;
\* item.update and resources.add are applied only to items this run created or
\* imported, and no delete call is issued.
C1_PreexistingItemsUntouched ==
    /\ \A id \in DOMAIN pre : id \in DOMAIN items /\ items[id] = pre[id]
    /\ CallsOf({"delete"}) = {}
    /\ \A k \in CallsOf({"update", "resources.add"}) :
         calls[k].id \in DOMAIN items \ DOMAIN pre

\* a finished run that renamed an imported item while the portal already held
\* an item of the same original title
C1_Witness ==
    /\ Finished
    /\ \E k \in CallsOf({"update"}), i \in DOMAIN pre :
         Suffixed(pre[i].title, TS) = calls[k].title

\* a finished zip run that uploaded a resource to the item it created
C1_WitnessZip ==
    /\ Finished
    /\ pre # <<>>
    /\ CallsOf({"resources.add"}) # {}

\* C2 (as claimed): the item the zip restore created carries the title
\* '<base_title>_<timestamp>', possibly further suffixed, and that title is the
\* "New Title" the run reports.
C2_ZipTitleIsReportedTitle ==
    (Finished /\ zip.item_id # NoneId) =>
        /\ IsPrefix(zip.new_title, items[zip.item_id].title)
        /\ zip.reported_title # <<>> => items[zip.item_id].title = zip.reported_title

\* C3 (as claimed): once restore_zip has returned, the extraction directory no
\* longer exists.
C3_ExtractDirRemoved == zip.returned => ~fs.dir_exists

\* the search call s settles the title of the create call c: the searched title
\* is the one c uses when nothing matched, and c's title extends it otherwise
SearchCovers(s, c) ==
    /\ s.op = "search"
    /\ IF s.n = 0 THEN c.title = s.title
       ELSE IsPrefix(s.title, c.title) /\ Len(c.title) > Len(s.title)

SearchedBefore(k) == \E j \in 1..(k-1) : SearchCovers(calls[j], calls[k])

\* C4 (as claimed): every create call (content.add, publish, create_service) is
\* preceded by a search for the title to be used, and a title that matched is
\* used with an extra suffix.
C4_SearchBeforeEveryCreate ==
    \A k \in CallsOf({"add", "publish", "create_service"}) : SearchedBefore(k)

\* C4 (amended): every content.add call of create_item is preceded by a search
\* for the title to be used, and a title that matched is used with an extra
\* suffix.
C4_SearchBeforeContentAdd ==
    \A k \in CallsOf({"add"}) : SearchedBefore(k)

\* an item was added after its search matched an existing item
C4_Witness ==
    \E k \in CallsOf({"add"}) :
        \E j \in 1..(k-1) : SearchCovers(calls[j], calls[k]) /\ calls[j].n > 0

LowerEndsWithContentExport == EndsWith(Lower(args.backup), ContentExportExt)

\* C5 (as claimed): in every run, restore_contentexport is invoked exactly when
\* the lower-cased path ends with ".contentexport", every other existing file
\* goes to restore_zip, and exactly one of the two is invoked.
C5_DispatchInEveryRun ==
    Finished =>
        /\ (invoked = <<"restore_contentexport">>) <=> LowerEndsWithContentExport
        /\ (file_kind = "file" /\ ~LowerEndsWithContentExport)
              => invoked = <<"restore_zip">>
        /\ Len(invoked) = 1

ReachedDispatch == ArgsParsed /\ file_kind = "file" /\ "connect" \notin raised

\* C5 (amended): in a run whose command line parses, whose backup path is an
\* existing file and whose connection succeeds, restore_contentexport is
\* invoked exactly when the lower-cased path ends with ".contentexport", every
\* other file goes to restore_zip, and exactly one of the two is invoked; a run
\* that ends before the dispatch invokes neither.
C5_DispatchByExtension ==
    Finished =>
        IF ReachedDispatch
        THEN invoked = IF LowerEndsWithContentExport
                       THEN <<"restore_contentexport">>
                       ELSE <<"restore_zip">>
        ELSE invoked = <<>>

\* a package whose extension is not written in lower case went to
\* restore_contentexport
C5_Witness ==
    /\ Finished
    /\ args.backup # Lower(args.backup)
    /\ invoked = <<"restore_contentexport">>

\* a file whose name only contains ".contentexport" went to restore_zip
C5_WitnessZip ==
    /\ Finished
    /\ invoked = <<"restore_zip">>
    /\ Len(args.backup) > Len(ContentExportExt)

\* C6 (as claimed): every imported entry whose id restore_contentexport reports
\* as restored is titled '<original title>_<timestamp>' in the portal, in
\* particular whenever "all items have been renamed" was logged.
C6_ReportedItemsRenamed ==
    (ocm.returned /\ ocm.ret.success) =>
        \A k \in DOMAIN ocm.imported :
            ocm.imported[k].id \in Range(ocm.ret.ids) =>
                items[ocm.imported[k].id].title = Suffixed(ocm.imported[k].title, TS)

\* C7 (as claimed): every id restore_contentexport returns with success=True
\* was re-fetched from the portal and found.
C7_ReportedIdsVerified ==
    (ocm.returned /\ ocm.ret.success) =>
        Range(ocm.ret.ids) \subseteq Range(ocm.verified_ids)

\* C8 (as claimed): every run ends with exit code 0 or 1, 0 exactly when the
\* restore produced a restored item id, and no run stops before its exit.
C8_ExitCodeInEveryRun ==
    /\ Finished => /\ exit_code \in {0, 1}
                   /\ (exit_code = 0) <=> Restored
    /\ Finished \/ ENABLED Next

\* C8 (amended): every run whose command line parses ends with exit code 0 or
\* 1, 0 exactly when the restore produced a restored item id, and no run stops
\* before its exit.
C8_ExitCodeIffRestored ==
    /\ (Finished /\ ArgsParsed) => /\ exit_code \in {0, 1}
                                   /\ (exit_code = 0) <=> Restored
    /\ Finished \/ ENABLED Next

\* a run that restored something and left with 0
C8_Witness == Finished /\ ArgsParsed /\ Restored /\ exit_code = 0

\* a run that got as far as creating an item and still left with 1
C8_WitnessFailure ==
    Finished /\ ArgsParsed /\ ~Restored /\ exit_code = 1 /\ DOMAIN items # DOMAIN pre

\* C9 (as claimed): whenever an exception was raised while connecting or inside
\* a restore path, restore_backup returns success=False and main leaves with 1.
C9_AnyExceptionIsFailure ==
    (Finished /\ raised # {}) => (~result.success /\ exit_code = 1)

\* the exceptions no best-effort step swallows
Fatal == {"connect", "list_items", "import_content", "extractall", "content.add",
          "content.get", "gdb extractall", "create_service"}

\* C9 (amended): an exception raised by the connection, by list_items or
\* import_content, by the extraction of the archive or of its _export.zip, by
\* content.add, by the re-fetch of the created item or by create_service is
\* turned into a failure result of restore_backup, and main leaves with 1
\* through its failure branch; every run in which an exception was raised
\* still reaches main's exit with 0 or 1.
C9_FatalExceptionIsFailure ==
    /\ (Finished /\ raised \cap Fatal # {}) => (~result.success /\ exit_code = 1)
    /\ (Finished /\ raised # {}) => (exit_code \in {0, 1} /\ result # NotStarted)

\* the connection raised and the run left with 1
C9_Witness == Finished /\ "connect" \in raised /\ exit_code = 1

\* an exception inside a restore path ended the run with 1
C9_WitnessRestore ==
    Finished /\ raised \cap {"import_content", "content.add"} # {} /\ exit_code = 1

\* C10 (as claimed): when publish_csv raised or returned an empty result and
\* the restore ends in failure, create_service has been attempted.
C10_FallbackBeforeFailure ==
    (zip.returned /\ zip.ret = NoneId /\ zip.published \in {"empty", "raise"}) =>
        CallsOf({"create_service"}) # {}

\* the backup declares no usable item type: no metadata file (or one that
\* does not parse), no "type" key, or a null "type"
NoUsableType == zip.archive.type \in {"nokey", "null"}

CreatedByCreateItem == CallsOf({"add"}) # {} /\ zip.item_id # NoneId

\* C11 (as claimed): a zip backup that declares no usable item type is handled
\* by the generic branch and its item is created with type 'Web Map'.
C11_DefaultTypeWebMap ==
    (NoUsableType /\ zip.item_id # NoneId) =>
        /\ CreatedByCreateItem
        /\ items[zip.item_id].type = "Web Map"

InPackagePath == invoked = <<"restore_contentexport">>

\* C12: in the package path list_items comes before import_content, the
\* partition by type is done before the import, every rename comes after the
\* import and every verification re-fetch after the last rename; when the
\* listing is empty or raises, import_content is not invoked,
\* restore_contentexport returns (False, None) and the portal is as it was.
C12_PackageStepOrder ==
    InPackagePath =>
        /\ \A k \in CallsOf({"import_content"}) :
              /\ \E j \in 1..(k-1) : calls[j].op = "list_items"
              /\ ocm.fs_in_package = CountType(ocm.manifest, "Feature Service")
              /\ ocm.sd_in_package = CountType(ocm.manifest, "Service Definition")
        /\ \A k \in CallsOf({"update"}) :
              \E j \in 1..(k-1) : calls[j].op = "import_content"
        /\ \A k \in CallsOf({"get"}) : \A j \in CallsOf({"update"}) : j < k
        /\ (CallsOf({"list_items"}) # {} /\ ocm.manifest = <<>>) =>
              /\ CallsOf({"import_content"}) = {}
              /\ ocm.returned /\ ocm.ret = OcmRet(FALSE, <<>>)
              /\ items = pre

\* a package run that listed, imported, renamed and verified
C12_Witness ==
    /\ Finished /\ InPackagePath
    /\ CallsOf({"update"}) # {} /\ CallsOf({"get"}) # {}
    /\ ocm.fs_in_package > 0

\* a package run whose listing raised
C12_WitnessListingRaised ==
    Finished /\ InPackagePath /\ "list_items" \in raised /\ pre # <<>>

\* the finder's result r for the naming convention Matches, against the tree:
\* a top-level file when a matching file is at the top level, a file of a
\* subdirectory only when none is, None exactly when no file matches
FinderContract(r, Matches(_)) ==
    LET files == {e \in zip.tree : ~e.dir /\ Matches(e.name)}
        top   == {e \in files : e.place = "top"}
    IN  r # NotSearched =>
          /\ top # {} => r \in top
          /\ (r # NoEntry /\ r \notin top) => (top = {} /\ r \in files)
          /\ (r = NoEntry) <=> (files = {})

\* C13 (as claimed): each artifact finder returns a top-level file when a
\* matching one exists there, a file of a subdirectory only when no top-level
\* file matches, and None exactly when no file of the tree matches.
C13_FindersPreferTopLevel ==
    /\ FinderContract(zip.found.metadata, IsMetadataName)
    /\ FinderContract(zip.found.data, IsDataName)
    /\ FinderContract(zip.found.thumbnail, IsThumbnailName)
    /\ FinderContract(zip.found.resources, IsResourcesName)

\* restore_resources has been called and has returned
ResourcesDone == zip.res_idx >= 1 /\ pc \notin {"zip_resources", "zip_res_add"}

\* C15: restore_resources is best-effort. Once it has returned, every file of a
\* readable resources.zip has had its rm.add call, whatever earlier calls did;
\* without a readable resources.zip no rm.add call was made; and the caller goes
\* on to its report and returns the item id, whatever failed inside.
C15_ResourcesBestEffort ==
    ResourcesDone =>
        /\ zip.archive.resources = "present" =>
              \A i \in 1..zip.archive.nres :
                  Cardinality({k \in CallsOf({"resources.add"}) : calls[k].n = i}) = 1
        /\ Cardinality(CallsOf({"resources.add"})) = zip.archive.nres
        /\ zip.archive.resources # "present" => CallsOf({"resources.add"}) = {}
        /\ pc # "zip_report" => zip.reported_title # <<>> /\ zip.ret = zip.item_id
        /\ zip.returned => zip.ret # NoneId

\* a first upload failed and a later one succeeded
C15_Witness ==
    /\ Finished /\ ResourcesDone
    /\ zip.archive.nres >= 2
    /\ "resources.add" \in raised
    /\ items[zip.new_item].res = zip.archive.nres - 1
    /\ result = RbRet(TRUE, "ids")

\* no resources.zip, or one that cannot be extracted
C15_WitnessAbsent ==
    /\ Finished /\ ResourcesDone
    /\ zip.archive.resources # "present"
    /\ result = RbRet(TRUE, "ids")

\* restore_backup has run its validation of backup_path
Validated == ArgsParsed /\ pc \notin {"parse_args", "validate"}

\* C16: the portal is contacted only after local validation. When backup_path
\* does not exist or is not a regular file, restore_backup returns (False, None),
\* no connection is opened, no portal call is issued and no restore is invoked.
C16_NoPortalBeforeValidation ==
    (Validated /\ file_kind # "file") =>
        /\ calls = <<>>
        /\ invoked = <<>>
        /\ raised = {}
        /\ items = pre
        /\ result = RbRet(FALSE, "None")

\* a run on a directory, ended with status 1
C16_Witness ==
    Finished /\ ArgsParsed /\ file_kind = "dir" /\ exit_code = 1 /\ pre # <<>>

C16_WitnessAbsent ==
    Finished /\ ArgsParsed /\ file_kind = "absent" /\ exit_code = 1

\* the feature-service path has looked for a geodatabase and found none
NoGeodatabase ==
    /\ zip.item_type = "Feature Service"
    /\ pc # "fs_find"
    /\ zip.archive.gdb \in {"none", "export_zip_empty"}

\* C17: in the feature-service zip path, when no geodatabase is found (no .gdb
\* folder and no _export.zip, or an _export.zip without a .gdb folder), no
\* publish or create-service call is issued, no item is created and restore_zip
\* returns None.
C17_NoGeodatabaseNoItem ==
    NoGeodatabase =>
        /\ CallsOf({"publish", "create_service", "add", "get", "update"}) = {}
        /\ items = pre
        /\ zip.item_id = NoneId
        /\ zip.returned => zip.ret = NoneId
        /\ Finished => result = RbRet(FALSE, "msg")

\* an _export.zip without a .gdb folder, restore_zip has returned
C17_Witness ==
    /\ Finished /\ NoGeodatabase /\ zip.returned
    /\ zip.archive.gdb = "export_zip_empty"
    /\ pre # <<>>

C17_WitnessNone ==
    Finished /\ NoGeodatabase /\ zip.returned /\ zip.archive.gdb = "none"

\* C18 (as claimed): after create_item succeeds, the title of the new item
\* differs from the title of every item the portal held before the call.
C18_NewTitleUnused ==
    CreatedByCreateItem =>
        \A i \in DOMAIN pre : pre[i].title # items[zip.item_id].title

\* C19 (as claimed): a zip run reported as failed (restore_zip returns None) has
\* created no portal item; once the item exists, restore_zip returns its id.
C19_FailedRunCreatedNothing ==
    zip.returned =>
        /\ zip.ret = NoneId => (zip.item_id = NoneId /\ items = pre)
        /\ zip.item_id # NoneId => zip.ret = zip.item_id

\* C20 (as claimed): the cleanup of restore_zip removes only what the run
\* created; a directory that was at the extraction location before the run is
\* still there when restore_zip has returned.
C20_PriorDirectoryKept == (zip.returned /\ fs.was_there) => fs.dir_exists

====
